---- MODULE Spec2Model ----
(***************************************************************************)
(* Speech-Emotion-Recognition front end: the upload validator              *)
(* (AudioUpload), the view orchestrator with the mock classifier and the   *)
(* history ledger (App), and the microphone capture session                *)
(* (AudioRecorder), as one state machine driven by UI events, device       *)
(* callbacks and timers.  Every action is one event-loop task together     *)
(* with the promise continuations (microtasks) it releases.                *)
(***************************************************************************)
EXTENDS Integers, Sequences, FiniteSets, Bags, TLC

VARIABLES
    view,          \* App: 'home' | 'upload' | 'record'
    audioFile,     \* App: File | null
    audioUrl,      \* App: string | null
    isAnalyzing,   \* App: boolean
    result,        \* App: EmotionResult | null
    history,       \* App: EmotionPrediction[]
    analyses,      \* handleAnalyze calls suspended in their setTimeout await
    now,           \* wall clock read by new Date(), in analysis delays elapsed
    player,        \* the AudioPlayer App renders for audioUrl, with its audio element
    selectedFile,  \* AudioUpload: File | null
    uploadError,   \* AudioUpload: error
    validations,   \* handleFile calls suspended in validateFile's decode await
    validated,     \* what the validateFile call that returned last returned
    lastPicked,    \* the File the mounted AudioUpload was handed last
    mounts,        \* AudioRecorder instances mounted so far; the last is the live one
    isRecording,   \* AudioRecorder state (of the mounted instance)
    recordingTime,
    audioBlob,
    recorderError,
    permissionGranted,
    refs,          \* per instance: mediaRecorderRef, chunksRef, timerRef, streamRef
    streams,       \* capture streams acquired by startRecording: "live" | "ended"
    recorders,     \* MediaRecorder objects built by startRecording
    starts,        \* startRecording calls suspended in their getUserMedia await
    permChecks     \* checkMicrophonePermission calls suspended in getUserMedia

appVars == <<view, audioFile, audioUrl, isAnalyzing, result, history, analyses, now, player>>
uploadVars == <<selectedFile, uploadError, validations, validated, lastPicked>>
recState == <<isRecording, recordingTime, audioBlob, recorderError, permissionGranted>>
recVars == <<mounts, recState, refs, streams, recorders, starts, permChecks>>
vars == <<appVars, uploadVars, recVars>>

(***************************************************************************)
(* Bounds of the model.                                                    *)
(***************************************************************************)
MaxPending == 1     \* validateFile calls in flight at once
MaxAnalyses == 1    \* handleAnalyze calls per behaviour (interleaving runs)
MaxRecords == 11    \* handleAnalyze calls per behaviour (ledger runs)
MaxDraw == 0        \* Math.random() draws are 0/10, 3/10, .. up to 3*MaxDraw/10
MaxMounts == 1      \* AudioRecorder instances per behaviour
MaxStreams == 2     \* startRecording calls that may acquire a stream
MaxChunks == 1      \* timeslice dataavailable events per recorder
MaxTicks == 2       \* timer ticks followed in the runs that do not reach the limit
MaxCalls == 2       \* handleAnalyze calls per behaviour (runs over both views)
MaxSeek == 2        \* playback positions are the multiples of duration / MaxSeek
MaxOverlap == 2     \* validateFile calls in flight at once (overlapping selections)
VolumeSteps == 4    \* slider positions are the multiples of 1 / VolumeSteps

(***************************************************************************)
(* Values.                                                                 *)
(***************************************************************************)
NoFile == [kind |-> "null", name |-> <<>>, type |-> "", size |-> 0,
           decode |-> [event |-> "none", duration |-> 0], bytes |-> <<>>]
NoUrl == [blob |-> NoFile]
NoResult == [primary |-> [emotion |-> "null", confidence |-> 0], all |-> <<>>]
NoError == "null"

\* URL.createObjectURL(blob): a reference to the blob it was issued for
ObjectURL(blob) == [blob |-> blob]

(***************************************************************************)
(* AudioUpload: constants and the format test of validateFile.             *)
(***************************************************************************)
ACCEPTED_FORMATS == {"audio/wav", "audio/mpeg", "audio/mp3", "audio/flac", "audio/x-flac"}
MAX_FILE_SIZE == 50 * 1024 * 1024
MAX_DURATION == 300
\* 0.5 s, durations being counted in tenths of a second
MIN_DURATION_TENTHS == 5

ERR_FORMAT == "Unsupported file format. Please upload WAV, MP3, or FLAC files."
ERR_SIZE == "File is too large. Maximum size is 50MB."
ERR_LONG == "Audio is too long. Maximum duration is 5 minutes."
ERR_SHORT == "Audio is too short. Minimum duration is 0.5 seconds."
ERR_LOAD == "Failed to load audio file. Please try another file."

UpperLetters == <<"A","B","C","D","E","F","G","H","I","J","K","L","M",
                  "N","O","P","Q","R","S","T","U","V","W","X","Y","Z">>
LowerLetters == <<"a","b","c","d","e","f","g","h","i","j","k","l","m",
                  "n","o","p","q","r","s","t","u","v","w","x","y","z">>

\* the pattern without its i flag
ToLowerNone(c) == c

\* case folding of the regular expression's i flag
ToLower(c) ==
    IF \E i \in DOMAIN UpperLetters : UpperLetters[i] = c
    THEN LowerLetters[CHOOSE i \in DOMAIN UpperLetters : UpperLetters[i] = c]
    ELSE c

\* the pattern \.(wav|mp3|flac)$ : a dot, then one of the three words, then the end
EXTENSIONS == {<<".","w","a","v">>, <<".","m","p","3">>, <<".","f","l","a","c">>}

EndsWithFolded(name, suffix) ==
    /\ Len(name) >= Len(suffix)
    /\ \A i \in 1..Len(suffix) :
          ToLower(name[Len(name) - Len(suffix) + i]) = suffix[i]

\* file.name.match(/\.(wav|mp3|flac)$/i)
NameMatches(name) == \E s \in EXTENSIONS : EndsWithFolded(name, s)

\* the condition of the first if of validateFile, negated
FormatOk(file) == file.type \in ACCEPTED_FORMATS \/ NameMatches(file.name)

\* the size taken in the wrong unit
SizeOkLoose(file) == ~(file.size \div 1024 > MAX_FILE_SIZE)

\* the condition of the second if of validateFile, negated
SizeOk(file) == ~(file.size > MAX_FILE_SIZE)

\* the listener with both comparisons made inclusive
DurationErrorInclusive(duration) ==
    IF duration >= MAX_DURATION * 10 THEN ERR_LONG
    ELSE IF duration <= MIN_DURATION_TENTHS THEN ERR_SHORT
    ELSE NoError

\* the loadedmetadata listener: the message it sets, NoError when it resolves
DurationError(duration) ==
    IF duration > MAX_DURATION * 10 THEN ERR_LONG
    ELSE IF duration < MIN_DURATION_TENTHS THEN ERR_SHORT
    ELSE NoError

(***************************************************************************)
(* The payloads a user can pick.  A payload is what the host hands over    *)
(* (name, declared type, size) and what the decode device reports for it:  *)
(* loadedmetadata with a duration in tenths of a second, error, or         *)
(* neither.                                                                *)
(***************************************************************************)
Loaded(d) == [event |-> "loadedmetadata", duration |-> d]
Failing == [event |-> "error", duration |-> 0]
Silent == [event |-> "none", duration |-> 0]

File(name, type, size, decode) ==
    [kind |-> "upload", name |-> name, type |-> type, size |-> size, decode |-> decode,
     bytes |-> <<>>]

NAMES == { <<"a",".","F","l","a","C">>, <<"b",".","m","p","3">>,
           <<"w","a","v">>, <<"a",".","w","a","v",".","t","x","t">> }
TYPES == { "audio/mpeg", "video/mp4" }
SIZES == { MAX_FILE_SIZE, MAX_FILE_SIZE + 1, 60 * 1000 * 1000 }
DURATIONS == { 0, MIN_DURATION_TENTHS - 1, MIN_DURATION_TENTHS,
               MAX_DURATION * 10, MAX_DURATION * 10 + 1 }
DECODES == { Loaded(d) : d \in DURATIONS } \cup { Failing, Silent }

AllFiles == { File(n, t, s, d) : n \in NAMES, t \in TYPES, s \in SIZES, d \in DECODES }

\* a handful of payloads, one per outcome of validateFile
WavFile == File(<<"a",".","w","a","v">>, "audio/wav", 10 * 1000 * 1000, Loaded(1800))
Mp3File == File(<<"b",".","m","p","3">>, "audio/mpeg", MAX_FILE_SIZE, Loaded(MAX_DURATION * 10))
OggFile == File(<<"c",".","o","g","g">>, "audio/ogg", 10 * 1000 * 1000, Loaded(1800))
BigFile == File(<<"d",".","w","a","v">>, "audio/wav", 60 * 1000 * 1000, Loaded(1800))
BigOggFile == File(<<"d",".","o","g","g">>, "audio/ogg", 60 * 1000 * 1000, Loaded(1800))
EdgeFile == File(<<"i",".","m","p","3">>, "", MAX_FILE_SIZE + 1, Loaded(1800))
LongFile == File(<<"e",".","w","a","v">>, "audio/wav", 1000, Loaded(MAX_DURATION * 10 + 1))
ShortFile == File(<<"f",".","w","a","v">>, "audio/wav", 1000, Loaded(MIN_DURATION_TENTHS - 1))
BrokenFile == File(<<"g",".","w","a","v">>, "audio/wav", 1000, Failing)
MuteFile == File(<<"h",".","w","a","v">>, "audio/wav", 1000, Silent)

FewFiles == { WavFile, Mp3File, OggFile, BigFile, BigOggFile, EdgeFile,
              LongFile, ShortFile, BrokenFile }

(***************************************************************************)
(* Sequence helpers.                                                       *)
(***************************************************************************)
RemoveAt(s, i) == SubSeq(s, 1, i - 1) \o SubSeq(s, i + 1, Len(s))

\* Array.prototype.slice(0, n)
Slice0(s, n) == SubSeq(s, 1, IF Len(s) < n THEN Len(s) ELSE n)

(***************************************************************************)
(* AudioPlayer.  App renders it in the upload and record views while       *)
(* audioUrl is set.  isPlaying, currentTime and duration are its state;    *)
(* elTime, elPaused, elReady are the audio element's currentTime, paused   *)
(* and readyState > HAVE_NOTHING; elQueued is a timeupdate event the       *)
(* element has queued after a jump of its position, elEnding the ended     *)
(* event it has queued on reaching the end.  Times are in tenths of a      *)
(* second.  volume and isMuted are its volume state and elVolume the       *)
(* audio element's volume, in hundredths: 100 is the 1 of useState(1) and  *)
(* the volume a new audio element has.                                     *)
(***************************************************************************)
NoPlayer == [mounted |-> FALSE, src |-> NoUrl, isPlaying |-> FALSE, currentTime |-> 0,
             duration |-> 0, elTime |-> 0, elPaused |-> TRUE, elReady |-> FALSE,
             elQueued |-> FALSE, elEnding |-> FALSE,
             volume |-> 100, isMuted |-> FALSE, elVolume |-> 100]

\* the first render of an AudioPlayer for url
PlayerMount(url) == [NoPlayer EXCEPT !.mounted = TRUE, !.src = url]

\* a render with another audioUrl: the element loads the new src, which
\* drops the events it had queued, pauses it and moves its position to 0,
\* with a timeupdate if it was not 0; the state of the component and the
\* element's volume stay
PlayerLoad(p, url) ==
    [p EXCEPT !.src = url, !.elTime = 0, !.elPaused = TRUE, !.elReady = FALSE,
              !.elQueued = p.elTime # 0, !.elEnding = FALSE]

\* the player after App has rendered view v with a new audioUrl
PlayerRender(p, v, url) ==
    IF v = "home" \/ url = NoUrl THEN NoPlayer
    ELSE IF p.mounted THEN PlayerLoad(p, url)
    ELSE PlayerMount(url)

(***************************************************************************)
(* App: handleAudioSelected, also the onAudioRecorded of the recorder.     *)
(***************************************************************************)
handleAudioSelected(file, url) ==
    /\ audioFile' = file
    /\ audioUrl' = url
    /\ result' = NoResult
    /\ player' = PlayerRender(player, view, url)

(***************************************************************************)
(* AudioUpload.  A suspended call is [file, mounted]: mounted is FALSE     *)
(* once the component that issued it has been unmounted, whose state       *)
(* setters then do nothing.  The suspended calls are a bag.                *)
(***************************************************************************)
\* what a validateFile call returned: isValid is its value, reason the message
\* it gave to setError, probed whether it got as far as the decode step,
\* mounted whether its component was there to take the message, url what has
\* become of the object URL of its probe: "none" when it issued none,
\* "issued" while the URL is live, "revoked"
Returned(file, isValid, reason, probed, mounted, url) ==
    [file |-> file, isValid |-> isValid, reason |-> reason, probed |-> probed,
     mounted |-> mounted, url |-> url]

\* the URL of the probe, issued by URL.createObjectURL(file) before the await,
\* after the listener of the event has run: the loadedmetadata listener ends
\* with URL.revokeObjectURL(url), the error listener does not call it
ProbeUrl(event) == IF event = "loadedmetadata" THEN "revoked" ELSE "issued"

Call(file, mounted) == [file |-> file, mounted |-> mounted]

\* handleFile after validateFile returned true
handleFileAccepted(file, mounted) ==
    /\ selectedFile' = IF mounted THEN file ELSE selectedFile
    /\ handleAudioSelected(file, ObjectURL(file))

\* a handleFile that goes on whatever validateFile returned
handleFileUnchecked(file) ==
    /\ selectedFile' = file
    /\ handleAudioSelected(file, ObjectURL(file))

\* handleFile after validateFile returned false: nothing
handleFileRejected(file) ==
    UNCHANGED <<selectedFile, audioFile, audioUrl, result, player>>

\* handleDrop / handleFileInput -> handleFile -> validateFile up to its await;
\* most bounds the calls in flight
HandleFile(file, most) ==
    /\ view = "upload"
    /\ lastPicked' = file
    /\ IF ~FormatOk(file) THEN
          /\ uploadError' = ERR_FORMAT
          /\ validated' = Returned(file, FALSE, ERR_FORMAT, FALSE, TRUE, "none")
          /\ handleFileRejected(file)
          /\ UNCHANGED validations
       ELSE IF ~SizeOk(file) THEN
          /\ uploadError' = ERR_SIZE
          /\ validated' = Returned(file, FALSE, ERR_SIZE, FALSE, TRUE, "none")
          /\ handleFileRejected(file)
          /\ UNCHANGED validations
       ELSE
          /\ BagCardinality(validations) < most
          /\ uploadError' = NoError
          /\ validations' = validations (+) SetToBag({Call(file, TRUE)})
          /\ UNCHANGED <<validated, selectedFile, audioFile, audioUrl, result, player>>
    /\ UNCHANGED <<view, isAnalyzing, history, analyses, now, recVars>>

\* the loadedmetadata or error listener of a suspended call, then the rest
\* of validateFile and of handleFile
DecodeEvent(call) ==
    /\ BagIn(call, validations)
    /\ LET file == call.file
           reason == IF file.decode.event = "error" THEN ERR_LOAD
                     ELSE DurationError(file.decode.duration)
       IN /\ file.decode.event \in {"loadedmetadata", "error"}
          /\ validations' = validations (-) SetToBag({call})
          /\ validated' = Returned(file, reason = NoError, reason, TRUE, call.mounted,
                                   ProbeUrl(file.decode.event))
          /\ IF reason = NoError THEN
                /\ handleFileAccepted(file, call.mounted)
                /\ UNCHANGED uploadError
             ELSE
                /\ uploadError' = IF call.mounted THEN reason ELSE uploadError
                /\ handleFileRejected(file)
    /\ UNCHANGED <<view, isAnalyzing, history, analyses, now, lastPicked, recVars>>

\* AudioUpload.handleClear, the X button shown next to the selected file
UploadClear ==
    /\ view = "upload"
    /\ selectedFile # NoFile
    /\ selectedFile' = NoFile
    /\ uploadError' = NoError
    /\ UNCHANGED <<validations, validated, lastPicked, appVars, recVars>>

(***************************************************************************)
(* App: the mock prediction of handleAnalyze.  A Math.random() draw is     *)
(* d/10 for a digit d; confidences are counted in tenths of a percent.     *)
(***************************************************************************)
emotions == <<"happy", "sad", "angry", "fearful", "neutral", "surprised", "disgusted">>

\* slice(0, 9) of the history update
HISTORY_KEEP == 9

Draws == { d \in 0..9 : d % 3 = 0 /\ d \div 3 <= MaxDraw }

\* emotions[Math.floor(Math.random() * emotions.length)]
PrimaryEmotion(rE) == emotions[((rE * Len(emotions)) \div 10) + 1]

\* the primary confidence drawn from 5..35 instead
PrimaryPercentLow(rC) == 5 + (rC * 30) \div 10

\* 65 + Math.random() * 30, in percent
PrimaryPercent(rC) == 65 + (rC * 30) \div 10

\* Math.random() * (100 - primaryConfidence), in tenths of a percent
OtherConfidence(rO, rC) == rO * (100 - PrimaryPercent(rC))

\* the filter dropping the first label whatever the primary one is
OtherLabelsTail(primaryEmotion) == Tail(emotions)

\* emotions.filter(e => e !== primaryEmotion)
OtherLabels(primaryEmotion) == SelectSeq(emotions, LAMBDA e : e # primaryEmotion)

\* Array.prototype.sort((a, b) => b.confidence - a.confidence), which is stable
RECURSIVE InsertDescending(_, _)
InsertDescending(sorted, x) ==
    IF sorted = <<>> THEN <<x>>
    ELSE IF Head(sorted).confidence >= x.confidence
         THEN <<Head(sorted)>> \o InsertDescending(Tail(sorted), x)
         ELSE <<x>> \o sorted

RECURSIVE SortDescending(_)
SortDescending(list) ==
    IF list = <<>> THEN <<>>
    ELSE InsertDescending(SortDescending(SubSeq(list, 1, Len(list) - 1)), list[Len(list)])

\* mockResult, from the draws [rE, rC, rO] of one handleAnalyze call
MockResult(draw) ==
    LET primaryEmotion == PrimaryEmotion(draw.rE)
        primary == [emotion |-> primaryEmotion, confidence |-> PrimaryPercent(draw.rC) * 10]
        labels == OtherLabels(primaryEmotion)
        otherEmotions == SortDescending(
            [i \in 1..Len(labels) |->
                [emotion |-> labels[i], confidence |-> OtherConfidence(draw.rO[i], draw.rC)]])
    IN [primary |-> primary, all |-> SortDescending(<<primary>> \o otherEmotions)]

DrawVectors == [rE : Draws, rC : Draws, rO : [1..6 -> Draws]]

\* one draw repeated, for the runs that interleave handleAnalyze with other events
FewDraws == { [rE |-> d, rC |-> d, rO |-> [i \in 1..6 |-> d]] : d \in Draws }

\* the draws of the runs that look at the result alone: every label as the
\* primary one, the primary confidence at both ends and in the middle of its
\* range, each other confidence at either end of its range
GridDraws == [rE : {0, 2, 3, 5, 6, 8, 9}, rC : {0, 5, 9}, rO : [1..6 -> {0, 9}]]

\* the entry named after the artifact current when the delay ends
HistoryEntryOfCurrent(mockResult, timestamp, file) ==
    [emotion |-> mockResult.primary.emotion, confidence |-> mockResult.primary.confidence,
     timestamp |-> timestamp, audioName |-> audioFile.name]

\* the entry handleAnalyze prepends: record(primaryEmotion, confidence, displayName)
HistoryEntry(mockResult, timestamp, file) ==
    [emotion |-> mockResult.primary.emotion, confidence |-> mockResult.primary.confidence,
     timestamp |-> timestamp, audioName |-> file.name]

\* the update with the slice taken one entry too long
RecordKeepsEleven(prev, entry) == <<entry>> \o Slice0(prev, HISTORY_KEEP + 1)

\* setHistory(prev => [entry, ...prev.slice(0, 9)])
Record(prev, entry) == <<entry>> \o Slice0(prev, HISTORY_KEEP)

\* an Analyze button that is never disabled
AnalyzeNeverDisabled == FALSE

\* disabled={isAnalyzing} of the Analyze button in both views
AnalyzeDisabled == isAnalyzing

\* handleAnalyze up to its await; the Analyze button is rendered with the
\* player and disabled while isAnalyzing.  most bounds the calls of a behaviour.
HandleAnalyze(most) ==
    /\ view \in {"upload", "record"}
    /\ audioUrl # NoUrl
    /\ ~AnalyzeDisabled
    /\ now + Len(analyses) < most
    /\ IF audioFile = NoFile
       THEN UNCHANGED <<isAnalyzing, result, analyses>>
       ELSE /\ isAnalyzing' = TRUE
            /\ result' = NoResult
            /\ analyses' = Append(analyses, [file |-> audioFile])
    /\ UNCHANGED <<view, audioFile, audioUrl, history, now, player, uploadVars, recVars>>

\* the setTimeout of call i fires: the rest of handleAnalyze
AnalyzeResolve(i, draw) ==
    /\ i \in DOMAIN analyses
    /\ LET mockResult == MockResult(draw)
       IN /\ result' = mockResult
          /\ isAnalyzing' = FALSE
          /\ now' = now + 1
          /\ history' = Record(history, HistoryEntry(mockResult, now', analyses[i].file))
    /\ analyses' = RemoveAt(analyses, i)
    /\ UNCHANGED <<view, audioFile, audioUrl, player, uploadVars, recVars>>

(***************************************************************************)
(* AudioRecorder.  An instance g keeps its refs in refs[g]; its state is   *)
(* kept only while it is the mounted instance, the setters of an unmounted *)
(* instance doing nothing.  A recorder k is the MediaRecorder with its     *)
(* handlers and the interval timer its startRecording call set up.         *)
(***************************************************************************)
MAX_RECORDING_TIME == 300

ERR_DENIED == "Microphone access denied. Please allow microphone access to record audio."
ERR_START == "Failed to start recording. Please check your microphone permissions."

NoBlob == NoFile
NoRefs == [mediaRecorder |-> 0, chunks |-> <<>>, timer |-> 0, stream |-> 0]

\* new Blob(parts, { type })
Blob(parts, type) ==
    [kind |-> "blob", name |-> <<>>, type |-> type, size |-> Len(parts),
     decode |-> Silent, bytes |-> parts]

\* new File([blob], `recording-${Date.now()}.webm`, { type: 'audio/webm' })
RecordingFile(blob) ==
    [kind |-> "recording", name |-> <<"recording-", ".webm">>, type |-> "audio/webm",
     size |-> blob.size, decode |-> Silent, bytes |-> blob.bytes]

Current(g) == view = "record" /\ g = mounts

\* streamRef.current.getTracks().forEach(track => track.stop()), guarded by the ref
StopTracks(all, streamRef) ==
    IF streamRef # 0 THEN [all EXCEPT ![streamRef] = "ended"] ELSE all

\* stopRecording as the closure that saw isRecording = seen runs it on
\* instance g: the values of recorders, refs and isRecording it leaves.
\* MediaRecorder.stop() throws on a recorder that is not recording, and the
\* statements after it are then skipped.
stopRecording(g, seen) ==
    LET r == refs[g].mediaRecorder
        t == refs[g].timer
    IN IF r # 0 /\ seen /\ recorders[r].state = "recording"
       THEN [recorders |-> [k \in DOMAIN recorders |->
                               [recorders[k] EXCEPT
                                  !.state = IF k = r THEN "stopping" ELSE @,
                                  !.ticking = IF k = t THEN FALSE ELSE @]],
             refs |-> [refs EXCEPT ![g].timer = 0],
             isRecording |-> IF Current(g) THEN FALSE ELSE isRecording]
       ELSE [recorders |-> recorders, refs |-> refs, isRecording |-> isRecording]

\* the effect's mount half: checkMicrophonePermission up to its await
CheckPermission(g) == permChecks' = Append(permChecks, [inst |-> g])

\* getUserMedia of permission check i settles; the probe stream is stopped at once
PermissionResolve(i, granted) ==
    /\ i \in DOMAIN permChecks
    /\ permChecks' = RemoveAt(permChecks, i)
    /\ IF Current(permChecks[i].inst)
       THEN /\ permissionGranted' = granted
            /\ recorderError' = IF granted THEN NoError ELSE ERR_DENIED
       ELSE UNCHANGED <<permissionGranted, recorderError>>
    /\ UNCHANGED <<appVars, uploadVars, mounts, isRecording, recordingTime, audioBlob,
                   refs, streams, recorders, starts>>

\* the Try Again button under the error message
PermissionRetry ==
    /\ view = "record"
    /\ recorderError # NoError
    /\ ~permissionGranted
    /\ Len(permChecks) < MaxPending
    /\ CheckPermission(mounts)
    /\ UNCHANGED <<appVars, uploadVars, mounts, recState, refs, streams, recorders, starts>>

\* the Start Recording button: startRecording up to its await
StartClick ==
    /\ view = "record"
    /\ permissionGranted
    /\ ~isRecording
    /\ audioBlob = NoBlob
    /\ Len(streams) + Len(starts) < MaxStreams
    /\ recorderError' = NoError
    /\ refs' = [refs EXCEPT ![mounts].chunks = <<>>]
    /\ audioBlob' = NoBlob
    /\ starts' = Append(starts, [inst |-> mounts, isRecording |-> isRecording])
    /\ UNCHANGED <<appVars, uploadVars, mounts, isRecording, recordingTime,
                   permissionGranted, streams, recorders, permChecks>>

\* getUserMedia of startRecording call i settles and the call runs to its end;
\* reached is the last step that does not throw
StartResolve(i, reached) ==
    /\ i \in DOMAIN starts
    /\ reached \in {"none", "getUserMedia", "MediaRecorder", "start"}
    /\ LET g == starts[i].inst
           s == Len(streams) + 1
           r == Len(recorders) + 1
           acquired == reached # "none"
           built == reached \in {"MediaRecorder", "start"}
           started == reached = "start"
       IN /\ starts' = RemoveAt(starts, i)
          /\ streams' = IF acquired THEN Append(streams, "live") ELSE streams
          /\ recorders' =
                IF built
                THEN Append(recorders,
                            [inst |-> g, stream |-> s, delivered |-> 0,
                             state |-> IF started THEN "recording" ELSE "inactive",
                             ticking |-> started,
                             isRecording |-> starts[i].isRecording])
                ELSE recorders
          /\ refs' = [refs EXCEPT
                        ![g].stream = IF acquired THEN s ELSE @,
                        ![g].mediaRecorder = IF built THEN r ELSE @,
                        ![g].timer = IF started THEN r ELSE @]
          /\ IF Current(g)
             THEN IF started
                  THEN /\ isRecording' = TRUE
                       /\ recordingTime' = 0
                       /\ UNCHANGED recorderError
                  ELSE /\ recorderError' = ERR_START
                       /\ UNCHANGED <<isRecording, recordingTime>>
             ELSE UNCHANGED <<isRecording, recordingTime, recorderError>>
    /\ UNCHANGED <<appVars, uploadVars, mounts, audioBlob, permissionGranted, permChecks>>

\* ondataavailable of recorder r during recording (every 100 ms)
DataAvailable(r, nonEmpty) ==
    /\ r \in DOMAIN recorders
    /\ recorders[r].state = "recording"
    /\ recorders[r].delivered < MaxChunks
    /\ recorders' = [recorders EXCEPT ![r].delivered = @ + 1]
    /\ refs' = IF nonEmpty
               THEN [refs EXCEPT ![recorders[r].inst].chunks =
                        Append(@, [rec |-> r, n |-> recorders[r].delivered + 1])]
               ELSE refs
    /\ UNCHANGED <<appVars, uploadVars, mounts, recState, streams, starts, permChecks>>

\* the Stop Recording button
StopClick ==
    /\ view = "record"
    /\ isRecording
    /\ permissionGranted
    /\ audioBlob = NoBlob
    /\ LET after == stopRecording(mounts, isRecording)
       IN /\ recorders' = after.recorders
          /\ refs' = after.refs
          /\ isRecording' = after.isRecording
    /\ UNCHANGED <<appVars, uploadVars, mounts, recordingTime, audioBlob, recorderError,
                   permissionGranted, streams, starts, permChecks>>

\* the interval callback of recorder t, set up by the call that built it
Tick(t) ==
    /\ t \in DOMAIN recorders
    /\ recorders[t].ticking
    /\ LET g == recorders[t].inst
           after == stopRecording(g, recorders[t].isRecording)
       IN IF Current(g)
          THEN IF recordingTime >= MAX_RECORDING_TIME
               THEN /\ recorders' = after.recorders
                    /\ refs' = after.refs
                    /\ isRecording' = after.isRecording
                    /\ UNCHANGED recordingTime
               ELSE /\ recordingTime' = recordingTime + 1
                    /\ UNCHANGED <<recorders, refs, isRecording>>
          ELSE UNCHANGED <<recorders, refs, isRecording, recordingTime>>
    /\ UNCHANGED <<appVars, uploadVars, mounts, audioBlob, recorderError,
                   permissionGranted, streams, starts, permChecks>>

\* the task MediaRecorder.stop() queued for recorder r: the last
\* dataavailable, then onstop
OnStop(r, nonEmpty) ==
    /\ r \in DOMAIN recorders
    /\ recorders[r].state = "stopping"
    /\ LET g == recorders[r].inst
           chunks == IF nonEmpty
                     THEN Append(refs[g].chunks, [rec |-> r, n |-> recorders[r].delivered + 1])
                     ELSE refs[g].chunks
           blob == Blob(chunks, "audio/webm")
       IN /\ recorders' = [recorders EXCEPT ![r].state = "inactive",
                                            ![r].delivered = @ + 1]
          /\ refs' = [refs EXCEPT ![g].chunks = chunks]
          /\ audioBlob' = IF Current(g) THEN blob ELSE audioBlob
          /\ handleAudioSelected(RecordingFile(blob), ObjectURL(blob))
          /\ streams' = StopTracks(streams, refs[g].stream)
    /\ UNCHANGED <<view, isAnalyzing, history, analyses, now, uploadVars, mounts,
                   isRecording, recordingTime, recorderError, permissionGranted,
                   starts, permChecks>>

\* the user agent stops a recorder all of whose stream's tracks have ended
TracksEnded(r) ==
    /\ r \in DOMAIN recorders
    /\ recorders[r].state = "recording"
    /\ streams[recorders[r].stream] = "ended"
    /\ recorders' = [recorders EXCEPT ![r].state = "stopping"]
    /\ UNCHANGED <<appVars, uploadVars, mounts, recState, refs, streams, starts, permChecks>>

\* AudioRecorder.handleClear, the Record Again button
RecordClear ==
    /\ view = "record"
    /\ audioBlob # NoBlob
    /\ audioBlob' = NoBlob
    /\ recordingTime' = 0
    /\ UNCHANGED <<appVars, uploadVars, mounts, isRecording, recorderError,
                   permissionGranted, refs, streams, recorders, starts, permChecks>>

(***************************************************************************)
(* AudioPlayer: the listeners of its effect and its controls.  The audio   *)
(* element plays the payload its src refers to, whose duration is the one  *)
(* the decode step reports for it.                                         *)
(***************************************************************************)
appState == <<view, audioFile, audioUrl, isAnalyzing, result, history, analyses, now>>

\* audio.duration once the metadata is there
ElementDuration(p) == p.src.blob.decode.duration

\* the positions followed: the multiples of d / MaxSeek up to d
Positions(d) == { (k * d) \div MaxSeek : k \in 0..MaxSeek }

Min(a, b) == IF a < b THEN a ELSE b

handleLoadedMetadata(p) == [p EXCEPT !.duration = ElementDuration(p)]

handleTimeUpdate(p) == [p EXCEPT !.currentTime = p.elTime]

\* the ended listener without its setCurrentTime(0)
handleEndedKeepsTime(p) == [p EXCEPT !.isPlaying = FALSE]

handleEnded(p) == [p EXCEPT !.isPlaying = FALSE, !.currentTime = 0]

\* audio.pause() or audio.play(), then setIsPlaying(!isPlaying); play() on an
\* element that has ended starts over from 0, which the element reports with
\* a timeupdate
togglePlay(p) ==
    LET restart == ~p.isPlaying /\ p.elReady /\ p.elTime = ElementDuration(p) /\ p.elTime # 0
    IN [p EXCEPT !.elPaused = p.isPlaying,
                 !.elTime = IF restart THEN 0 ELSE @,
                 !.elQueued = @ \/ restart,
                 !.isPlaying = ~p.isPlaying]

\* audio.currentTime = time, then setCurrentTime(time); the element takes the
\* position once it has the metadata (and reports it with a timeupdate), and
\* keeps its own until then
handleSeek(p, time) ==
    [p EXCEPT !.elTime = IF p.elReady THEN Min(time, ElementDuration(p)) ELSE @,
              !.elQueued = @ \/ p.elReady,
              !.elEnding = @ \/ (p.elReady /\ time >= ElementDuration(p)),
              !.currentTime = time]

\* a || b on numbers
OrElse(a, b) == IF a = 0 THEN b ELSE a

\* audio.volume = vol; setVolume(vol); setIsMuted(vol === 0)
handleVolumeChange(p, vol) ==
    [p EXCEPT !.elVolume = vol, !.volume = vol, !.isMuted = (vol = 0)]

\* toggleMute without the || 0.5 of its unmute branch
toggleMuteKeepsZero(p) ==
    IF p.isMuted
    THEN [p EXCEPT !.elVolume = p.volume, !.isMuted = FALSE]
    ELSE [p EXCEPT !.elVolume = 0, !.isMuted = TRUE]

\* unmute: audio.volume = volume || 0.5, setIsMuted(false),
\* setVolume(volume || 0.5); mute: audio.volume = 0, setIsMuted(true)
toggleMute(p) ==
    IF p.isMuted
    THEN [p EXCEPT !.elVolume = OrElse(p.volume, 50), !.isMuted = FALSE,
                   !.volume = OrElse(p.volume, 50)]
    ELSE [p EXCEPT !.elVolume = 0, !.isMuted = TRUE]

\* the positions of the volume slider followed: the multiples of
\* 1 / VolumeSteps from 0 to 1 (the slider has min 0, max 1, step 0.01)
SliderValues == { (k * 100) \div VolumeSteps : k \in 0..VolumeSteps }

\* where the volume slider stands: value={isMuted ? 0 : volume}
SliderValue(p) == IF p.isMuted THEN 0 ELSE p.volume

\* the element has read the metadata of its src: loadedmetadata
LoadedMetadata ==
    /\ player.mounted
    /\ ~player.elReady
    /\ player.src.blob.decode.event = "loadedmetadata"
    /\ player' = handleLoadedMetadata([player EXCEPT !.elReady = TRUE])
    /\ UNCHANGED <<appState, uploadVars, recVars>>

\* the Play / Pause button
TogglePlay ==
    /\ player.mounted
    /\ player' = togglePlay(player)
    /\ UNCHANGED <<appState, uploadVars, recVars>>

\* playback has moved on to position t: timeupdate
TimeUpdate(t) ==
    /\ player.mounted
    /\ player.elReady
    /\ ~player.elPaused
    /\ t \in Positions(ElementDuration(player))
    /\ t > player.elTime
    /\ player' = handleTimeUpdate([player EXCEPT
                                      !.elTime = t,
                                      !.elEnding = @ \/ t = ElementDuration(player)])
    /\ UNCHANGED <<appState, uploadVars, recVars>>

\* the timeupdate the element queued when it moved its position itself
QueuedTimeUpdate ==
    /\ player.mounted
    /\ player.elQueued
    /\ player' = handleTimeUpdate([player EXCEPT !.elQueued = FALSE])
    /\ UNCHANGED <<appState, uploadVars, recVars>>

\* the position has reached the end of the payload: the element pauses if it
\* is still there, ended
Ended ==
    /\ player.mounted
    /\ player.elEnding
    /\ player' = handleEnded([player EXCEPT
                                  !.elEnding = FALSE,
                                  !.elPaused = @ \/ player.elTime = ElementDuration(player)])
    /\ UNCHANGED <<appState, uploadVars, recVars>>

\* the seek slider, an input of type range from 0 to duration
HandleSeek(time) ==
    /\ player.mounted
    /\ time \in Positions(player.duration)
    /\ player' = handleSeek(player, time)
    /\ UNCHANGED <<appState, uploadVars, recVars>>

\* the volume slider is moved to vol: change
HandleVolumeChange(vol) ==
    /\ player.mounted
    /\ vol \in SliderValues
    /\ vol # SliderValue(player)
    /\ player' = handleVolumeChange(player, vol)
    /\ UNCHANGED <<appState, uploadVars, recVars>>

\* the Mute / Unmute button
ToggleMute ==
    /\ player.mounted
    /\ player' = toggleMute(player)
    /\ UNCHANGED <<appState, uploadVars, recVars>>

(***************************************************************************)
(* App: navigation.  Entering a view mounts its component, handleReset     *)
(* unmounts it.                                                            *)
(***************************************************************************)
\* the two buttons of the home view: setView('upload'), setView('record')
SetView(v) ==
    /\ view = "home"
    /\ v \in {"upload", "record"}
    /\ view' = v
    /\ IF v = "record"
       THEN /\ mounts < MaxMounts
            /\ mounts' = mounts + 1
            /\ refs' = Append(refs, NoRefs)
            /\ CheckPermission(mounts')
       ELSE UNCHANGED <<mounts, refs, permChecks>>
    /\ player' = PlayerRender(player, v, audioUrl)
    /\ UNCHANGED <<audioFile, audioUrl, isAnalyzing, result, history, analyses, now,
                   uploadVars, recState, streams, recorders, starts>>

\* AudioUpload goes away: its suspended calls go on without their setters
UnmountUpload ==
    /\ selectedFile' = NoFile
    /\ lastPicked' = NoFile
    /\ uploadError' = NoError
    /\ validations' =
          LET gone == { Call(c.file, FALSE) : c \in BagToSet(validations) }
          IN [c \in gone |-> CopiesIn(c, validations)
                              + CopiesIn(Call(c.file, TRUE), validations)]
    /\ UNCHANGED <<validated, recVars>>

\* the cleanup of AudioRecorder's effect, a closure of the first render,
\* where isRecording is false
UnmountRecorder ==
    /\ LET after == stopRecording(mounts, FALSE)
       IN /\ recorders' = after.recorders
          /\ refs' = after.refs
          /\ streams' = StopTracks(streams, after.refs[mounts].stream)
    /\ isRecording' = FALSE
    /\ recordingTime' = 0
    /\ audioBlob' = NoBlob
    /\ recorderError' = NoError
    /\ permissionGranted' = FALSE
    /\ UNCHANGED <<uploadVars, mounts, starts, permChecks>>

\* the Back to Home button of the upload and record views
HandleReset ==
    /\ view \in {"upload", "record"}
    /\ audioFile' = NoFile
    /\ audioUrl' = NoUrl
    /\ result' = NoResult
    /\ view' = "home"
    /\ player' = NoPlayer
    /\ IF view = "upload" THEN UnmountUpload ELSE UnmountRecorder
    /\ UNCHANGED <<isAnalyzing, history, analyses, now>>

(***************************************************************************)
(* Specifications.                                                         *)
(***************************************************************************)
Init ==
    /\ view = "home"
    /\ audioFile = NoFile
    /\ audioUrl = NoUrl
    /\ isAnalyzing = FALSE
    /\ result = NoResult
    /\ history = <<>>
    /\ analyses = <<>>
    /\ now = 0
    /\ player = NoPlayer
    /\ selectedFile = NoFile
    /\ uploadError = NoError
    /\ validations = EmptyBag
    /\ validated = Returned(NoFile, FALSE, NoError, FALSE, FALSE, "none")
    /\ lastPicked = NoFile
    /\ mounts = 0
    /\ isRecording = FALSE
    /\ recordingTime = 0
    /\ audioBlob = NoBlob
    /\ recorderError = NoError
    /\ permissionGranted = FALSE
    /\ refs = <<>>
    /\ streams = <<>>
    /\ recorders = <<>>
    /\ starts = <<>>
    /\ permChecks = <<>>

\* The validator on every payload, one selection at a time.
NextValidate ==
    \/ SetView("upload")
    \/ \E file \in AllFiles : validations = EmptyBag /\ HandleFile(file, MaxPending)
    \/ \E call \in BagToSet(validations) : DecodeEvent(call)
    \/ UploadClear
    \/ HandleReset

SpecValidate == Init /\ [][NextValidate]_vars

\* Upload view and orchestrator: overlapping selections and analyses.
NextApp ==
    \/ SetView("upload")
    \/ \E file \in FewFiles : HandleFile(file, MaxPending)
    \/ \E call \in BagToSet(validations) : DecodeEvent(call)
    \/ UploadClear
    \/ HandleReset
    \/ HandleAnalyze(MaxAnalyses)
    \/ \E i \in DOMAIN analyses, draw \in FewDraws : AnalyzeResolve(i, draw)

SpecApp == Init /\ [][NextApp]_vars

\* The history ledger: many analyses of two payloads, one draw.
LedgerFiles == { WavFile, Mp3File }
LedgerDraws == { draw \in FewDraws : draw.rE = 0 }

NextHistory ==
    \/ SetView("upload")
    \/ \E file \in LedgerFiles : validations = EmptyBag /\ HandleFile(file, MaxPending)
    \/ \E call \in BagToSet(validations) : DecodeEvent(call)
    \/ HandleReset
    \/ HandleAnalyze(MaxRecords)
    \/ \E i \in DOMAIN analyses, draw \in LedgerDraws : AnalyzeResolve(i, draw)

SpecHistory == Init /\ [][NextHistory]_vars

\* The mock classifier on one accepted payload, over the grid of draws.
NextClassify ==
    \/ SetView("upload")
    \/ validations = EmptyBag /\ audioFile = NoFile /\ HandleFile(WavFile, MaxPending)
    \/ \E call \in BagToSet(validations) : DecodeEvent(call)
    \/ HandleAnalyze(MaxAnalyses)
    \/ \E i \in DOMAIN analyses, draw \in GridDraws : AnalyzeResolve(i, draw)

SpecClassify == Init /\ [][NextClassify]_vars

\* Both views with the orchestrator: artifacts from the uploader and from
\* the recorder, analysed and reset in any order; one capture at a time and
\* no more captures than recorders mounted.
SessionFiles == { WavFile, LongFile }

NextSession ==
    \/ \E v \in {"upload", "record"} : SetView(v)
    \/ \E file \in SessionFiles : validations = EmptyBag /\ HandleFile(file, MaxPending)
    \/ \E call \in BagToSet(validations) : DecodeEvent(call)
    \/ \E i \in DOMAIN permChecks : PermissionResolve(i, TRUE)
    \/ starts = <<>> /\ Len(streams) < mounts /\ StartClick
    \/ \E i \in DOMAIN starts : StartResolve(i, "start")
    \/ StopClick
    \/ \E r \in DOMAIN recorders : OnStop(r, TRUE)
    \/ RecordClear
    \/ HandleReset
    \/ HandleAnalyze(MaxCalls)
    \/ \E i \in DOMAIN analyses, draw \in LedgerDraws : AnalyzeResolve(i, draw)

SpecSession == Init /\ [][NextSession]_vars

\* The player in the upload view: two payloads of different lengths selected
\* one after the other, played, sought and replaced.
PlayerFiles == { WavFile, Mp3File }

NextPlayer ==
    \/ SetView("upload")
    \/ \E file \in PlayerFiles : validations = EmptyBag /\ HandleFile(file, MaxPending)
    \/ \E call \in BagToSet(validations) : DecodeEvent(call)
    \/ HandleReset
    \/ LoadedMetadata
    \/ TogglePlay
    \/ \E t \in Positions(ElementDuration(player)) : TimeUpdate(t)
    \/ QueuedTimeUpdate
    \/ Ended
    \/ \E t \in Positions(player.duration) : HandleSeek(t)
    \/ \E vol \in SliderValues : HandleVolumeChange(vol)
    \/ ToggleMute

SpecPlayer == Init /\ [][NextPlayer]_vars

\* The uploader with selections that overlap: a file is picked while the
\* decode steps of earlier picks are still pending.
OverlapFiles == { WavFile, Mp3File, LongFile }

NextOverlap ==
    \/ SetView("upload")
    \/ \E file \in OverlapFiles : HandleFile(file, MaxOverlap)
    \/ \E call \in BagToSet(validations) : DecodeEvent(call)
    \/ HandleReset

SpecOverlap == Init /\ [][NextOverlap]_vars

\* The capture session.
NextRec ==
    \/ SetView("record")
    \/ \E i \in DOMAIN permChecks, granted \in BOOLEAN : PermissionResolve(i, granted)
    \/ PermissionRetry
    \/ StartClick
    \/ \E i \in DOMAIN starts, reached \in {"none", "getUserMedia", "MediaRecorder", "start"} :
          StartResolve(i, reached)
    \/ \E r \in DOMAIN recorders, nonEmpty \in BOOLEAN : DataAvailable(r, nonEmpty)
    \/ StopClick
    \/ \E t \in DOMAIN recorders : recordingTime < MaxTicks /\ Tick(t)
    \/ \E r \in DOMAIN recorders, nonEmpty \in BOOLEAN : OnStop(r, nonEmpty)
    \/ \E r \in DOMAIN recorders : TracksEnded(r)
    \/ RecordClear
    \/ HandleReset

SpecRec == Init /\ [][NextRec]_vars

\* The capture session with its timer followed up to the recording limit.
NextAutoStop ==
    \/ SetView("record")
    \/ \E i \in DOMAIN permChecks, granted \in BOOLEAN : PermissionResolve(i, granted)
    \/ StartClick
    \/ \E i \in DOMAIN starts, reached \in {"none", "getUserMedia", "MediaRecorder", "start"} :
          StartResolve(i, reached)
    \/ \E r \in DOMAIN recorders, nonEmpty \in BOOLEAN : DataAvailable(r, nonEmpty)
    \/ StopClick
    \/ \E t \in DOMAIN recorders : Tick(t)
    \/ \E r \in DOMAIN recorders, nonEmpty \in BOOLEAN : OnStop(r, nonEmpty)
    \/ \E r \in DOMAIN recorders : TracksEnded(r)
    \/ RecordClear
    \/ HandleReset

SpecAutoStop == Init /\ [][NextAutoStop]_vars

(***************************************************************************)
(* Claims.                                                                 *)
(***************************************************************************)
LiveStreams == { s \in DOMAIN streams : streams[s] = "live" }

\* C1: start() called again without a stop() in between never leaves two
\* capture streams held at the same time.
C1_OneStreamAtATime == Cardinality(LiveStreams) <= 1

\* C2: at the recording limit the timer's tick finalizes the session as
\* stop() does: whenever the session is recording with elapsedSeconds at the
\* limit, and the recorder and the timer the session holds are those of the
\* one capture in progress, a tick of that timer is a step that leaves
\* Recording and stops the recorder.
C2_AutoStopFinalizes ==
    \A t \in DOMAIN recorders :
        (/\ isRecording /\ recordingTime >= MAX_RECORDING_TIME
         /\ Current(recorders[t].inst)
         /\ refs[mounts].mediaRecorder = t /\ refs[mounts].timer = t
         /\ recorders[t].state = "recording" /\ recorders[t].ticking)
            => ENABLED (/\ Tick(t)
                        /\ ~isRecording'
                        /\ recorders'[t].state = "stopping")

\* no call of startRecording is waiting for its stream and no recorder has a
\* stop event still to deliver
CaptureSettled ==
    /\ starts = <<>>
    /\ \A r \in DOMAIN recorders : recorders[r].state # "stopping"

\* C3: no acquired stream stays live while the session is Idle or torn
\* down: once the session is not recording and nothing of it is still in
\* progress, every stream that was acquired has its tracks stopped.
C3_StreamsReleased ==
    (~isRecording /\ CaptureSettled) => LiveStreams = {}

\* C4: a classification result is current only for the artifact it was
\* computed for: a result that resolves after a new selection or a reset is
\* not stored.  (The entry recorded with a result carries its artifact's name.)
C4_StaleResultDiscarded ==
    result # NoResult
        => /\ audioFile # NoFile
           /\ history # <<>>
           /\ history[1].audioName = audioFile.name

\* the payloads of FewFiles whose media type or name is an accepted one
AcceptedFormatFiles == FewFiles \ { OggFile, BigOggFile }

\* the names of the payloads over the size limit
OversizeNames == { f.name : f \in { g \in FewFiles : g.size > MAX_FILE_SIZE } }

\* C5 as stated: a payload over 50 MiB is rejected with FileTooLarge whatever
\* its format.
C5_TooLargeWhateverFormat ==
    validated.file.size > MAX_FILE_SIZE
        => ~validated.isValid /\ validated.reason = ERR_SIZE

\* C5 as amended: a payload over 50 MiB is always rejected before the decode
\* step, with FileTooLarge when its format is accepted and with
\* UnsupportedFormat when it is not; it never becomes the selected file or
\* the artifact and is never classified or recorded.
C5_TooLargeRejected ==
    /\ validated.file.size > MAX_FILE_SIZE
          => /\ ~validated.isValid
             /\ ~validated.probed
             /\ validated.reason =
                   IF validated.file \in AcceptedFormatFiles THEN ERR_SIZE ELSE ERR_FORMAT
    /\ selectedFile.size <= MAX_FILE_SIZE
    /\ audioFile.size <= MAX_FILE_SIZE
    /\ audioUrl.blob.size <= MAX_FILE_SIZE
    /\ \A c \in BagToSet(validations) : c.file.size <= MAX_FILE_SIZE
    /\ \A i \in DOMAIN analyses : analyses[i].file.size <= MAX_FILE_SIZE
    /\ \A i \in DOMAIN history : history[i].audioName \notin OversizeNames

C5_Witness ==
    /\ validated.file = BigFile
    /\ validated.reason = ERR_SIZE
    /\ audioFile = WavFile
    /\ history # <<>>

\* the names of NAMES that end in .wav, .mp3 or .flac, whatever the case
AudioNames == { <<"a",".","F","l","a","C">>, <<"b",".","m","p","3">> }
AudioTypes == { "audio/wav", "audio/mpeg", "audio/mp3", "audio/flac", "audio/x-flac" }

\* C6: a payload whose media type is not accepted and whose name has no
\* accepted extension is rejected with UnsupportedFormat whatever its size
\* and decodability, and its decode step is never started; a payload whose
\* media type or name matches is not rejected for its format.
C6_FormatFirst ==
    /\ validated.file # NoFile
          => IF validated.file.type \notin AudioTypes /\ validated.file.name \notin AudioNames
             THEN /\ ~validated.isValid
                  /\ validated.reason = ERR_FORMAT
                  /\ ~validated.probed
             ELSE validated.reason # ERR_FORMAT
    /\ \A c \in BagToSet(validations) :
          c.file.type \in AudioTypes \/ c.file.name \in AudioNames

C6_Witness ==
    /\ validated.reason = ERR_FORMAT
    /\ validated.file.size > MAX_FILE_SIZE
    /\ validated.file.decode = Failing
    /\ selectedFile.name = <<"a",".","F","l","a","C">>
    /\ selectedFile.type = "video/mp4"

\* C7: a payload that passed the format and size checks and decodes to
\* duration d is Rejected(TooLong) when d > 300 s, Rejected(TooShort) when
\* d < 0.5 s and Accepted exactly when 0.5 s <= d <= 300 s; a decode error
\* gives Rejected(DecodeFailed).
C7_DurationCheck ==
    validated.probed
        => LET d == validated.file.decode.duration
           IN IF validated.file.decode.event = "error"
              THEN ~validated.isValid /\ validated.reason = ERR_LOAD
              ELSE /\ d > 3000 => ~validated.isValid /\ validated.reason = ERR_LONG
                   /\ d < 5 => ~validated.isValid /\ validated.reason = ERR_SHORT
                   /\ validated.isValid <=> (5 <= d /\ d <= 3000)
                   /\ validated.isValid => validated.reason = NoError

C7_Witness ==
    /\ validated.isValid
    /\ validated.file.decode.duration = 3000
    /\ selectedFile = validated.file
    /\ audioFile = validated.file

\* the payloads of FewFiles that validateFile rejects
RejectedFiles == { OggFile, BigFile, BigOggFile, EdgeFile, LongFile, ShortFile, BrokenFile }

\* a validateFile call returns false in this step
Rejects == validated' # validated /\ ~validated'.isValid

\* C8 as stated: whenever validate rejects a payload the caller is not
\* notified, the uploader does not select it, and an error message is set.
C8_RejectionSetsError ==
    [][Rejects => /\ selectedFile' = selectedFile
                  /\ audioFile' = audioFile
                  /\ audioUrl' = audioUrl
                  /\ uploadError' # NoError]_vars

\* C8 as amended: whenever validate rejects a payload the caller is not
\* notified with an artifact or a playable reference, the uploader does not
\* select it, and the error message of the rejection is set in the uploader
\* that issued the call if that uploader is still mounted (a call that
\* outlives its uploader sets none); a rejected payload is never the selected
\* file or the artifact, and no classify call is made on it.
C8_RejectionLeavesNoState ==
    /\ [][Rejects => /\ validated'.file \in RejectedFiles
                     /\ selectedFile' = selectedFile
                     /\ audioFile' = audioFile
                     /\ audioUrl' = audioUrl
                     /\ validated'.reason # NoError
                     /\ validated'.mounted => uploadError' = validated'.reason
                     /\ ~validated'.mounted => uploadError' = uploadError]_vars
    /\ [](/\ selectedFile \notin RejectedFiles
          /\ audioFile \notin RejectedFiles
          /\ audioUrl.blob \notin RejectedFiles
          /\ \A i \in DOMAIN analyses : analyses[i].file \notin RejectedFiles
          /\ \A i \in DOMAIN history :
                history[i].audioName \notin { f.name : f \in RejectedFiles })

C8_Witness ==
    /\ validated.file = LongFile
    /\ ~validated.mounted
    /\ view = "upload"
    /\ uploadError = NoError

\* C9: every validateFile call that reached the duration check returns: a
\* suspended call always has a step that ends it, also when the decode step
\* reports neither a duration nor an error.
C9_ValidatorReturns ==
    \A call \in BagToSet(validations) : ENABLED DecodeEvent(call)

\* C10: the ledger holds at most 10 entries, newest first, and they are the
\* 10 most recently recorded ones (entries are stamped 1, 2, .. in the order
\* they are recorded); an entry leaves the ledger only by being pushed
\* beyond the cap, and only a completed analysis changes the ledger.
C10_LedgerCapAndOrder ==
    /\ [](/\ Len(history) <= 10
          /\ Len(history) = IF now < 10 THEN now ELSE 10
          /\ \A i \in DOMAIN history : history[i].timestamp = now - i + 1)
    /\ [][/\ now' = now => history' = history
          /\ now' # now => /\ Len(history') >= Len(history)
                           /\ \A i \in DOMAIN history :
                                 i < 10 => history'[i + 1] = history[i]]_vars

C10_Witness ==
    /\ now > 10
    /\ Len(history) = 10
    /\ history[10].timestamp = now - 9
    /\ view = "home"
    /\ audioFile = NoFile

\* the confidences, in tenths of a percent, of the entries of a distribution
Confidences(all) == { all[i].confidence : i \in DOMAIN all }

\* C11: in every distribution classify produces, no entry has a confidence
\* greater than primary's, primary is an entry of the list, and the first
\* element of the descending-sorted list is the primary entry; the list is
\* sorted by descending confidence.
C11_PrimaryIsMax ==
    result # NoResult
        => /\ \A i \in DOMAIN result.all :
                 result.all[i].confidence <= result.primary.confidence
           /\ result.all[1] = result.primary
           /\ \A i \in DOMAIN result.all :
                 i > 1 => result.all[i - 1].confidence >= result.all[i].confidence

C11_Witness ==
    /\ result # NoResult
    /\ result.primary.emotion = "disgusted"
    /\ result.primary.confidence = 650
    /\ result.all[2].confidence = 315
    /\ result.all[7].confidence = 0

\* C12: every distribution classify produces has exactly seven entries, one
\* for each label of the vocabulary with none missing or duplicated, and
\* every confidence lies in [0, 100] percent.
C12_SevenLabels ==
    result # NoResult
        => /\ Len(result.all) = 7
           /\ \A e \in {"happy", "sad", "angry", "fearful", "neutral", "surprised",
                         "disgusted"} :
                 Cardinality({ i \in DOMAIN result.all : result.all[i].emotion = e }) = 1
           /\ \A c \in Confidences(result.all) \cup {result.primary.confidence} :
                 0 <= c /\ c <= 1000

C12_Witness ==
    /\ result # NoResult
    /\ result.primary.emotion = "neutral"
    /\ result.primary.confidence = 920
    /\ Confidences(result.all) = {920, 72, 0}
    /\ Len(history) = 1

\* the artifacts validate accepts among SessionFiles, by name
AcceptedNames == { WavFile.name }

\* a handleAnalyze call starts, or ends, in this step
Classifies == Len(analyses') > Len(analyses)
Completes == Len(analyses') < Len(analyses)

\* C13: each classify call is made on an accepted artifact (an accepted
\* upload or a recording) and completes with exactly one distribution;
\* record is then called exactly once, in the same step, with that
\* result's primary emotion and confidence and the display name of the
\* artifact the call was made on; the ledger changes in no other step.
C13_OneRecordPerClassify ==
    /\ [][Classifies => /\ analyses' = Append(analyses, [file |-> audioFile])
                         /\ \/ audioFile.kind = "recording"
                            \/ audioFile.kind = "upload" /\ audioFile.name \in AcceptedNames
                         /\ history' = history]_vars
    /\ [][Completes => \E i \in DOMAIN analyses :
                           /\ analyses' = RemoveAt(analyses, i)
                           /\ result' # NoResult
                           /\ Len(result'.all) = 7
                           /\ Len(history') = IF Len(history) < 10 THEN Len(history) + 1
                                               ELSE 10
                           /\ history'[1].emotion = result'.primary.emotion
                           /\ history'[1].confidence = result'.primary.confidence
                           /\ history'[1].audioName = analyses[i].file.name
                           /\ \A k \in 2..Len(history') : history'[k] = history[k - 1]]_vars
    /\ [][history' # history => Completes]_vars

C13_Witness ==
    /\ Len(history) = 2
    /\ history[1].audioName = RecordingFile(NoBlob).name
    /\ history[2].audioName = WavFile.name
    /\ view = "home"
    /\ audioFile = NoFile
    /\ analyses = <<>>

RunningTimers == { t \in DOMAIN recorders : Current(recorders[t].inst) /\ recorders[t].ticking }

\* an artifact of the recorder is handed to the caller in this step
Emits == audioFile' # audioFile /\ audioFile'.kind = "recording"

\* C14: stop() from Recording leaves Recording with the elapsed-time timer
\* cancelled and the recorder finalizing; the artifact then emitted is
\* tagged with the recorded media type and is made of the fragments of the
\* recording that was stopped, in arrival order, and of no others.
C14_StopFinalizes ==
    /\ [][StopClick => /\ ~isRecording'
                       /\ RunningTimers' = {}
                       /\ recorders'[refs[mounts].mediaRecorder].state = "stopping"]_vars
    /\ [][Emits => \E r \in DOMAIN recorders :
                       /\ recorders[r].state = "stopping"
                       /\ recorders'[r].state = "inactive"
                       /\ audioFile'.type = "audio/webm"
                       /\ \A k \in DOMAIN audioFile'.bytes :
                             /\ audioFile'.bytes[k].rec = r
                             /\ k > 1 => audioFile'.bytes[k - 1].n < audioFile'.bytes[k].n]_vars

\* C15: when a start() of the mounted recorder fails, at device
\* acquisition, at recorder construction or at recorder start, the session
\* is Idle afterwards, no elapsed-time timer is running, and the
\* CaptureUnavailable message is set.
C15_FailedStartIsIdle ==
    [][\A i \in DOMAIN starts, reached \in {"none", "getUserMedia", "MediaRecorder"} :
          (StartResolve(i, reached) /\ Current(starts[i].inst))
              => /\ ~isRecording'
                 /\ RunningTimers' = {}
                 /\ recorderError' = ERR_START]_vars

\* one and the same player is on screen before and after the step
PlayerStays == player.mounted /\ player'.mounted

\* the seek slider is moved in this step
Seeks == \E t \in Positions(player.duration) : HandleSeek(t)

\* a new artifact replaces the loaded one in this step
Replaces ==
    \/ \E call \in BagToSet(validations) : DecodeEvent(call) /\ validated'.isValid
    \/ \E r \in DOMAIN recorders, nonEmpty \in BOOLEAN : OnStop(r, nonEmpty)

\* C16 as stated: while a player is on screen its currentTime decreases only
\* in a step that is an explicit seek or the end of playback, whatever
\* time-update, seek, ended and artifact-replacement events occur; at the
\* end of playback currentTime becomes 0 and isPlaying false.
C16_TimeMonotone ==
    [][PlayerStays => /\ player'.currentTime < player.currentTime => Seeks \/ Ended
                      /\ Ended => player'.currentTime = 0 /\ ~player'.isPlaying]_vars

\* C16 as amended: currentTime decreases only on an explicit seek, at the
\* end of playback, or in a time update that brings it back to the position
\* of the audio element after the two had come apart; the element's own
\* position decreases only on a seek, when a new artifact replaces the
\* loaded one (the element loads it from 0) and when play starts over from
\* the end; replacing the artifact leaves currentTime and isPlaying as they
\* are; at the end of playback currentTime becomes 0 and isPlaying false.
C16_TimeMonotoneButReload ==
    [][PlayerStays =>
          /\ player'.currentTime < player.currentTime
                => \/ Seeks
                   \/ Ended
                   \/ /\ player.currentTime # player.elTime
                      /\ player'.currentTime = player'.elTime
                      /\ ~Replaces
          /\ player'.elTime < player.elTime
                => \/ Seeks
                   \/ Replaces /\ player'.elTime = 0
                   \/ TogglePlay /\ player.elTime = ElementDuration(player)
                                 /\ player'.elTime = 0
          /\ Replaces
                => /\ player'.currentTime = player.currentTime
                   /\ player'.isPlaying = player.isPlaying
          /\ Ended => player'.currentTime = 0 /\ ~player'.isPlaying]_vars

C16_Witness ==
    /\ player.mounted
    /\ player.src = ObjectURL(Mp3File)
    /\ player.duration = WavFile.decode.duration
    /\ player.currentTime = WavFile.decode.duration
    /\ player.elTime = 0
    /\ player.elQueued
    /\ player.isPlaying

\* C17: Record Again clears the artifact of the discarded recording, so
\* that nothing is left to play or to classify, and leaves the capture
\* device, the streams and the permission state as they are.
C17_DiscardClearsArtifact ==
    [][RecordClear => /\ audioBlob' = NoBlob
                      /\ audioFile' = NoFile
                      /\ audioUrl' = NoUrl
                      /\ ~player'.mounted
                      /\ UNCHANGED <<streams, recorders, refs, starts, isRecording,
                                     permissionGranted, permChecks>>]_vars

\* C18: the object URL issued for the duration probe has been released by
\* the time validateFile returns, whatever the probe found: accepted, too
\* long, too short or decode error.
C18_ProbeUrlReleased ==
    validated.probed => validated.url = "revoked"

\* the buffer of instance g gets a fragment in this step
Appends(g) == Len(refs'[g].chunks) > Len(refs[g].chunks)

\* C19: a fragment is appended to the chunk buffer only while the session is
\* Recording; while a recorder is finalizing, from the stop request until its
\* payload has been built, the buffer it will be built from does not change.
C19_BufferFrozen ==
    /\ [][\A g \in DOMAIN refs : Appends(g) => Current(g) /\ isRecording]_vars
    /\ [][\A r \in DOMAIN recorders :
              recorders[r].state = "stopping" /\ recorders'[r].state = "stopping"
                  => refs'[recorders[r].inst].chunks = refs[recorders[r].inst].chunks]_vars

\* C21: in every reachable state a result is held only together with an
\* artifact and its playable reference; after handleReset all three are
\* cleared, and the result stays cleared for as long as no artifact is held.
C21_ResultImpliesArtifact ==
    result # NoResult => audioFile # NoFile /\ audioUrl # NoUrl

\* the payloads of OverlapFiles that validateFile accepts
ValidFiles == { WavFile, Mp3File }

\* C22: once no validation is pending any more, if the file selected last in
\* the upload view is a valid one, it is the file the uploader shows as
\* selected and the artifact the orchestrator holds, whatever the order in
\* which the decode steps completed, and no error message of another
\* selection is displayed with it.
C22_LastSelectionWins ==
    (view = "upload" /\ validations = EmptyBag /\ lastPicked \in ValidFiles)
        => /\ selectedFile = lastPicked
           /\ audioFile = lastPicked
           /\ audioUrl = ObjectURL(lastPicked)
           /\ uploadError = NoError

\* C23: in every reachable state of a mounted player the stored volume is
\* between 0 and 1, the audio element's volume is 0 while isMuted and is the
\* stored volume, which is then above 0, while not; the mute button pressed
\* twice from an unmuted state brings back the element volume and the stored
\* volume of before; a mute step silences the element and keeps the volume
\* that was in effect as the stored one, nothing changes the stored volume
\* while the player stays muted, and the unmute step gives that volume back
\* to the element.
C23_VolumeMute ==
    /\ [](player.mounted =>
            /\ player.volume \in 0..100
            /\ player.isMuted => player.elVolume = 0
            /\ ~player.isMuted => player.elVolume = player.volume /\ player.volume > 0
            /\ ~player.isMuted =>
                  /\ toggleMute(player).isMuted
                  /\ toggleMute(player).elVolume = 0
                  /\ toggleMute(toggleMute(player)) = player)
    /\ [][PlayerStays =>
            /\ (ToggleMute /\ ~player.isMuted)
                  => /\ player'.isMuted
                     /\ player'.elVolume = 0
                     /\ player'.volume = player.elVolume
            /\ (player.isMuted /\ player'.isMuted)
                  => player'.volume = player.volume
            /\ (ToggleMute /\ player.isMuted /\ player.volume > 0)
                  => /\ ~player'.isMuted
                     /\ player'.elVolume = player.volume
                     /\ player'.volume = player.volume]_vars

\* muted by the mute button at a volume the slider had set, with another
\* payload loaded since
C23_Witness ==
    /\ player.mounted
    /\ player.isMuted
    /\ player.elVolume = 0
    /\ player.volume \notin {0, 50, 100}
    /\ player.src = ObjectURL(Mp3File)
    /\ player.duration = WavFile.decode.duration

====
